---------------------------- MODULE Spec2Model ----------------------------
(* SSR theme runtime orchestrator of murphy-app: the process supervisor    *)
(* (ssr.Manager), the activation coordinator (themeService) and the proxy  *)
(* router (SSRProxyMiddleware), as a state machine.                        *)
EXTENDS Integers, Sequences, FiniteSets, TLC

(* ------------------------------ bounds -------------------------------- *)
\* Processes the host lets the supervisor spawn; a further cmd.Start() fails.
MaxSpawn == 2

(* --------------------------- fixed universes -------------------------- *)
Themes == {"a", "b", "c"}
Callers == {"d1", "d2"}
Coords == {"k1", "k2"}
Threads == Callers \cup Coords
Free == "free"
NoCall == [op |-> "none", name |-> "", port |-> 0, st |-> "idle",
           res |-> "none", pid |-> 0, todo |-> {}, peer |-> "none", failed |-> FALSE]

NoSwitch == [pc |-> "idle", target |-> "", list |-> {}, res |-> "none",
             prev |-> "", lost |-> FALSE, stopErr |-> FALSE, found |-> FALSE,
             port |-> 0]
NoReq == [pc |-> "idle", path |-> <<>>, theme |-> "", port |-> 0, outcome |-> "none",
          afterClear |-> FALSE]

\* the port each administrative caller passes to Start
PortOf(t) == IF t = "d1" THEN 3001 ELSE 3002

VARIABLES
  disk,         \* themes whose directory holds server.js
  processes,    \* Manager.processes: set of [name, pid, port]
  mu,           \* Manager.mu: Free, or the thread holding the write lock
  proc,         \* OS processes spawned so far, pid = index
  reaper,       \* per pid, the goroutine launched by Start: "waiting" | "done"
  prober,       \* per pid, its waitForReady goroutine: "probing" | "locking" | "ready" | "timeout" | "aborted"
  mcall,        \* per thread, its call into the Manager
  stoppedSince, \* per theme: how a caller's last Stop ended, "no" after a later Start
  sweptSince,   \* how the last StopAll ended, "no" after a later Start
  catalog,      \* theme names with a UserInstalledTheme record
  current,      \* committed records with is_current = true
  dbLock,       \* Free, or the coordinator whose open transaction wrote the records
  coord,        \* per coordinator thread, its SwitchToSSRTheme call
  checkerSet,   \* whether SetSSRThemeChecker installed a checker
  req           \* the inbound request in SSRProxyMiddleware

vars == <<disk, processes, mu, proc, reaper, prober, mcall, stoppedSince, sweptSince,
          catalog, current, dbLock, coord, checkerSet, req>>

dbVars == <<catalog, current, dbLock>>
routerVars == <<checkerSet, req>>
others == <<catalog, current, dbLock, coord, checkerSet, req>>

(* ------------------------- registry lookups --------------------------- *)
Pids == 1..Len(proc)

HasEntry(name) == \E e \in processes : e.name = name

Entry(name) == CHOOSE e \in processes : e.name = name

MapPut_NoPort(name, rt) ==
  {e \in processes : e.name # name} \cup {[name |-> name, pid |-> rt.pid, port |-> 0]}

\* m.processes[name] = rt
MapPut(name, rt) ==
  {e \in processes : e.name # name} \cup {[name |-> name, pid |-> rt.pid, port |-> rt.port]}

MapDelete_All(name) == {}

\* delete(m.processes, name)
MapDelete(name) == {e \in processes : e.name # name}

IsRunning(name) == HasEntry(name)

GetPort(name) == IF HasEntry(name) THEN Entry(name).port ELSE 0

ListRunning == {e.name : e \in processes}

(* --------------------------- OS processes ----------------------------- *)
\* proc[pid].st: "alive" | "termed" (SIGTERM delivered) | "killed" | "exited"
Alive(pid) == proc[pid].st # "exited"

\* Process.Signal(SIGTERM): delivered to a live process, an error otherwise
SigTerm(pid) ==
  IF proc[pid].st = "alive" THEN [proc EXCEPT ![pid].st = "termed"] ELSE proc

SigKill_Noop(pid) == proc

\* Process.Kill()
SigKill(pid) ==
  IF Alive(pid) THEN [proc EXCEPT ![pid].st = "killed"] ELSE proc

\* the runtime exits: a crash, or its reaction to a signal
ProcExit(pid) ==
  /\ Alive(pid)
  /\ proc' = [proc EXCEPT ![pid].st = "exited"]
  /\ UNCHANGED <<disk, processes, mu, reaper, mcall, stoppedSince, sweptSince, prober>>
  /\ UNCHANGED others

(* ------------------------------ callers ------------------------------- *)
Invoke(t, op, name, port) ==
  /\ mcall[t].st \in {"idle", "returned"}
  /\ mcall' = [mcall EXCEPT ![t] =
       [NoCall EXCEPT !.op = op, !.name = name, !.port = port, !.st = "pending"]]
  /\ UNCHANGED <<disk, processes, mu, proc, reaper, stoppedSince, sweptSince, prober>>
  /\ UNCHANGED others

Return(t, res) == [NoCall EXCEPT !.st = "returned", !.res = res]

\* t's Start(name) returns res: every other Start(name) still pending overlapped it
StartReturns(t, name, res) ==
  [u \in DOMAIN mcall |->
     IF u = t THEN Return(t, res)
     ELSE IF mcall[u].st = "pending" /\ mcall[u].op = "Start" /\ mcall[u].name = name
          THEN [mcall[u] EXCEPT !.peer = res]
          ELSE mcall[u]]

(* --------------------------- Manager.Start ---------------------------- *)
\* if rt, exists := m.processes[themeName]; exists && rt.cmd.Process != nil
StartRefuses_NoCheck(name) == FALSE

StartRefuses(name) == HasEntry(name)

StartError_Swallowed(err) == "ok"

\* return errors.New(...) / fmt.Errorf(...): the error goes to the caller
StartError(err) == err

Start(t) ==
  /\ mcall[t].st = "pending" /\ mcall[t].op = "Start"
  /\ mu = Free
  /\ LET name == mcall[t].name
         port == mcall[t].port
         pid  == Len(proc) + 1
     IN
     \/ /\ StartRefuses(name)
        /\ mcall' = StartReturns(t, name, StartError("AlreadyRunning"))
        /\ UNCHANGED <<processes, proc, reaper, stoppedSince, sweptSince, prober>>
     \/ /\ ~StartRefuses(name)
        /\ name \notin disk
        /\ mcall' = StartReturns(t, name, StartError("NotInstalled"))
        /\ UNCHANGED <<processes, proc, reaper, stoppedSince, sweptSince, prober>>
     \/ /\ ~StartRefuses(name)
        /\ name \in disk
        /\ mcall' = StartReturns(t, name, StartError("SpawnFailed"))
        /\ UNCHANGED <<processes, proc, reaper, stoppedSince, sweptSince, prober>>
     \/ /\ ~StartRefuses(name)
        /\ name \in disk
        /\ Len(proc) < MaxSpawn
        /\ proc' = Append(proc, [theme |-> name, st |-> "alive"])
        /\ processes' = MapPut(name, [pid |-> pid, port |-> port])
        /\ reaper' = Append(reaper, "waiting")
        /\ prober' = Append(prober, "probing")
        /\ mcall' = StartReturns(t, name, "ok")
        /\ stoppedSince' = [stoppedSince EXCEPT ![name] = "no"]
        /\ sweptSince' = "no"
  /\ UNCHANGED <<disk, mu>>
  /\ UNCHANGED others

\* coordinator k has found or started its target name and not yet returned
Ensured(k, name) ==
  /\ coord[k].target = name
  /\ \/ coord[k].pc = "commit"
     \/ coord[k].pc = "starting" /\ mcall[k].st = "returned" /\ mcall[k].res = "ok"

\* the goroutine launched by Start: cmd.Wait(), then delete under the lock
Reap(pid) ==
  /\ reaper[pid] = "waiting"
  /\ ~Alive(pid)
  /\ mu = Free
  /\ processes' = MapDelete(proc[pid].theme)
  /\ reaper' = [reaper EXCEPT ![pid] = "done"]
  /\ coord' = [k \in Coords |->
       IF Ensured(k, proc[pid].theme) /\ HasEntry(proc[pid].theme)
       THEN [coord[k] EXCEPT !.lost = TRUE] ELSE coord[k]]
  /\ UNCHANGED <<disk, mu, proc, mcall, stoppedSince, sweptSince, prober>>
  /\ UNCHANGED <<dbVars, routerVars>>

(* ------------------------ Manager.waitForReady ------------------------ *)
ProbeLogs_Removes(name) == MapDelete(name)

\* log.Printf and return: the prober only reads the registry
ProbeLogs(name) == processes

ProbeEnds(pid, how) ==
  /\ prober' = [prober EXCEPT ![pid] = how]
  /\ UNCHANGED <<disk, mu, proc, reaper, mcall, stoppedSince, sweptSince>>
  /\ UNCHANGED others

\* if elapsed >= maxTimeout
ProbeTimeout(pid) ==
  /\ prober[pid] = "probing"
  /\ ProbeEnds(pid, "timeout")
  /\ processes' = ProbeLogs(proc[pid].theme)

\* elapsed < maxTimeout: m.mu.RLock() while a writer holds the lock; the
\* prober waits ("locking") until the lock is released
ProbeLock(pid) ==
  /\ prober[pid] = "probing"
  /\ mu # Free
  /\ ProbeEnds(pid, "locking")
  /\ UNCHANGED processes

\* under RLock: if !exists || rt.cmd.Process == nil
ProbeAbort(pid) ==
  /\ prober[pid] \in {"probing", "locking"}
  /\ mu = Free
  /\ ~HasEntry(proc[pid].theme)
  /\ ProbeEnds(pid, "aborted")
  /\ processes' = ProbeLogs(proc[pid].theme)

\* the entry is there; client.Get(healthURL) answered by the runtime
ProbeReady(pid) ==
  /\ prober[pid] \in {"probing", "locking"}
  /\ mu = Free
  /\ HasEntry(proc[pid].theme)
  /\ Alive(pid)
  /\ ProbeEnds(pid, "ready")
  /\ UNCHANGED processes

\* the entry is there; client.Get failed; time.Sleep(checkInterval) and the
\* next round of the loop
ProbeRetry(pid) ==
  /\ prober[pid] = "locking"
  /\ mu = Free
  /\ HasEntry(proc[pid].theme)
  /\ ProbeEnds(pid, "probing")
  /\ UNCHANGED processes

(* -------------------------- Manager.GetStatus ------------------------- *)
\* what os.Stat(themePath) can return: a theme with server.js has its
\* directory; any other directory may be there or not; the call itself can fail
StatErrors(name) ==
  IF name \in disk THEN {"nil", "other"} ELSE {"nil", "notExist", "other"}

\* info.Status as GetStatus sets it
Classify(name, err) ==
  IF err = "notExist" THEN "notInstalled"
  ELSE IF HasEntry(name) THEN "running"
  ELSE "installed"

\* the ThemeInfo returned; the record keeps the theme asked for and, in peer,
\* the error of os.Stat
GetStatus(t) ==
  /\ mcall[t].st = "pending" /\ mcall[t].op = "GetStatus"
  /\ mu = Free
  /\ \E err \in StatErrors(mcall[t].name) :
       LET name == mcall[t].name
           status == Classify(name, err)
       IN mcall' = [mcall EXCEPT ![t] =
            [Return(t, status) EXCEPT !.name = name, !.peer = err,
               !.port = IF status = "running" THEN GetPort(name) ELSE 0]]
  /\ UNCHANGED <<disk, processes, mu, proc, reaper, stoppedSince, sweptSince, prober>>
  /\ UNCHANGED others

(* ---------------------------- Manager.Stop ---------------------------- *)
ErrNotRunning_Nil == "ok"

\* return errors.New("theme not running")
ErrNotRunning == "NotRunning"

\* the record of how an administrative caller's Stop ended
StopObserved(t, how) ==
  IF t \in Callers THEN [stoppedSince EXCEPT ![mcall[t].name] = how] ELSE stoppedSince

StopDelete_Skip(name) == processes

\* delete(m.processes, themeName) at the end of Stop
StopDelete(name) == MapDelete(name)

StopBegin(t) ==
  /\ mcall[t].st = "pending" /\ mcall[t].op = "Stop"
  /\ mu = Free
  /\ LET name == mcall[t].name IN
     IF ~HasEntry(name)
     THEN /\ mcall' = [mcall EXCEPT ![t] = Return(t, ErrNotRunning)]
          /\ UNCHANGED <<mu, proc>>
     ELSE /\ mu' = t
          \* Signal(SIGTERM); on error Kill(), which fails the same way
          /\ proc' = SigTerm(Entry(name).pid)
          /\ mcall' = [mcall EXCEPT ![t].st = "waiting", ![t].pid = Entry(name).pid]
  /\ UNCHANGED <<disk, processes, reaper, stoppedSince, sweptSince, prober>>
  /\ UNCHANGED others

\* case <-done
StopDone(t) ==
  /\ mcall[t].st = "waiting" /\ mcall[t].op = "Stop"
  /\ mu = t
  /\ ~Alive(mcall[t].pid)
  /\ processes' = StopDelete(mcall[t].name)
  /\ mu' = Free
  /\ mcall' = [mcall EXCEPT ![t] = Return(t, "ok")]
  /\ stoppedSince' = StopObserved(t, "graceful")
  /\ UNCHANGED <<disk, proc, reaper, sweptSince, prober>>
  /\ UNCHANGED others

\* case <-time.After(5 * time.Second)
StopTimeout(t) ==
  /\ mcall[t].st = "waiting" /\ mcall[t].op = "Stop"
  /\ mu = t
  /\ proc' = SigKill(mcall[t].pid)
  /\ processes' = StopDelete(mcall[t].name)
  /\ mu' = Free
  /\ mcall' = [mcall EXCEPT ![t] = Return(t, "ok")]
  /\ stoppedSince' = StopObserved(t, "forced")
  /\ UNCHANGED <<disk, reaper, sweptSince, prober>>
  /\ UNCHANGED others

(* --------------------------- Manager.StopAll -------------------------- *)
StopAllBegin(t) ==
  /\ mcall[t].st = "pending" /\ mcall[t].op = "StopAll"
  /\ mu = Free
  /\ mu' = t
  /\ mcall' = [mcall EXCEPT ![t].st = "sweep", ![t].todo = {e.pid : e \in processes}]
  /\ UNCHANGED <<disk, processes, proc, reaper, stoppedSince, sweptSince, prober>>
  /\ UNCHANGED others

\* rt.cmd.Process.Signal(syscall.SIGTERM) for the next entry of the range loop
StopAllSignal(t) ==
  /\ mcall[t].st = "sweep" /\ mcall[t].pid = 0
  /\ \E pid \in mcall[t].todo :
       /\ proc' = SigTerm(pid)
       /\ mcall' = [mcall EXCEPT ![t].pid = pid,
                                 ![t].failed = mcall[t].failed \/ ~Alive(pid)]
  /\ UNCHANGED <<disk, processes, mu, reaper, stoppedSince, sweptSince, prober>>
  /\ UNCHANGED others

\* rt.cmd.Wait() returns
StopAllWait(t) ==
  /\ mcall[t].st = "sweep" /\ mcall[t].pid # 0
  /\ ~Alive(mcall[t].pid)
  /\ mcall' = [mcall EXCEPT ![t].pid = 0, ![t].todo = mcall[t].todo \ {mcall[t].pid}]
  /\ UNCHANGED <<disk, processes, mu, proc, reaper, stoppedSince, sweptSince, prober>>
  /\ UNCHANGED others

StopAllClear_Keep == processes

\* m.processes = make(map[string]*runningTheme)
StopAllClear == {}

StopAllEnd(t) ==
  /\ mcall[t].st = "sweep" /\ mcall[t].pid = 0 /\ mcall[t].todo = {}
  /\ processes' = StopAllClear
  /\ mu' = Free
  /\ mcall' = [mcall EXCEPT ![t] = Return(t, "ok")]
  /\ sweptSince' = IF mcall[t].failed THEN "failed" ELSE "clean"
  /\ UNCHANGED <<disk, proc, reaper, stoppedSince, prober>>
  /\ UNCHANGED others

(* ------------------- themeService.SwitchToSSRTheme -------------------- *)
CoordPort == 3000

CallManager(k, op, name, port) ==
  [mcall EXCEPT ![k] =
     [NoCall EXCEPT !.op = op, !.name = name, !.port = port, !.st = "pending"]]

Finish(k, res) ==
  [NoSwitch EXCEPT !.pc = "done", !.res = res, !.stopErr = coord[k].stopErr,
                   !.port = coord[k].port]

DefaultPort == 3000

\* the ports a StartTheme request can carry; 0 when the body has none
RequestPorts == {0, 3000, 4000}

\* if req.Port == 0 { req.Port = 3000 }; gin.H{"port": req.Port}
ReportedPort(p) == IF p = 0 THEN DefaultPort ELSE p

SwInstalled_Any(target) == TRUE

\* the query for the (user, theme name) record finds one
SwInstalled(target) == target \in catalog

\* StartTheme binds the request and calls SwitchToSSRTheme without the port;
\* 1. the target's record is looked up
SwBeginFor(k, target, p) ==
  /\ coord[k].pc \in {"idle", "done"}
  /\ \/ /\ ~SwInstalled(target)
        /\ coord' = [coord EXCEPT ![k] =
             [Finish(k, "NotInstalled") EXCEPT !.port = ReportedPort(p)]]
     \/ coord' = [coord EXCEPT ![k] =
             [Finish(k, "QueryFailed") EXCEPT !.port = ReportedPort(p)]]
     \/ /\ SwInstalled(target)
        /\ coord' = [coord EXCEPT ![k] =
             [NoSwitch EXCEPT !.pc = "list", !.target = target,
                !.port = ReportedPort(p),
                !.prev = IF \E n \in current : IsRunning(n) /\ n # target
                         THEN CHOOSE n \in current : IsRunning(n) /\ n # target
                         ELSE ""]]
  /\ UNCHANGED <<disk, processes, mu, proc, reaper, mcall, stoppedSince, sweptSince, prober>>
  /\ UNCHANGED <<dbVars, routerVars>>

\* a request without a port
SwBegin(k, target) == SwBeginFor(k, target, 0)

\* a request with any port
StartTheme(k, target) == \E p \in RequestPorts : SwBeginFor(k, target, p)

OthersToStop_None(target) == {}

OthersToStop_All(target) == ListRunning

\* for _, name := range runningThemes { if name != themeName { ... } }
OthersToStop(target) == ListRunning \ {target}

\* 2. runningThemes := ssrManager.ListRunning()
SwList(k) ==
  /\ coord[k].pc = "list"
  /\ mu = Free
  /\ coord' = [coord EXCEPT ![k].pc = "stopOthers",
                            ![k].list = OthersToStop(coord[k].target)]
  /\ UNCHANGED <<disk, processes, mu, proc, reaper, mcall, stoppedSince, sweptSince, prober>>
  /\ UNCHANGED <<dbVars, routerVars>>

\* ssrManager.Stop(name) for the next running theme other than the target
SwStopCall(k) ==
  /\ coord[k].pc = "stopOthers"
  /\ \E name \in coord[k].list :
       /\ mcall' = CallManager(k, "Stop", name, 0)
       /\ coord' = [coord EXCEPT ![k].pc = "stopping", ![k].list = coord[k].list \ {name}]
  /\ UNCHANGED <<disk, processes, mu, proc, reaper, stoppedSince, sweptSince, prober>>
  /\ UNCHANGED <<dbVars, routerVars>>

OnStopResult_Abort(k) ==
  IF mcall[k].res # "ok" THEN Finish(k, "StopFailed")
  ELSE [coord[k] EXCEPT !.pc = "stopOthers"]

\* if err != nil { log.Printf(...) }: the loop goes on
OnStopResult(k) ==
  [coord[k] EXCEPT !.pc = "stopOthers", !.stopErr = @ \/ mcall[k].res # "ok"]

SwStopRet(k) ==
  /\ coord[k].pc = "stopping"
  /\ mcall[k].st = "returned"
  /\ mcall' = [mcall EXCEPT ![k] = NoCall]
  /\ coord' = [coord EXCEPT ![k] = OnStopResult(k)]
  /\ UNCHANGED <<disk, processes, mu, proc, reaper, stoppedSince, sweptSince, prober>>
  /\ UNCHANGED <<dbVars, routerVars>>

TxWrites_Visible(target) == {target} \cap catalog

\* the flags a reader sees after the updates made through tx and before the
\* commit: the committed ones
TxWrites(target) == current

\* 3. s.db.Tx, clear is_current of every record, set it on the target; the
\* writes stay invisible to readers until the commit
SwPersist(k) ==
  /\ coord[k].pc = "stopOthers"
  /\ coord[k].list = {}
  /\ \/ /\ coord' = [coord EXCEPT ![k] = Finish(k, "PersistFailed")]
        /\ UNCHANGED <<dbLock, current>>
     \/ /\ dbLock = Free
        /\ dbLock' = k
        /\ current' = TxWrites(coord[k].target)
        /\ coord' = [coord EXCEPT ![k].pc = "ensure"]
  /\ UNCHANGED <<disk, processes, mu, proc, reaper, mcall, stoppedSince, sweptSince, prober>>
  /\ UNCHANGED <<catalog, routerVars>>

\* 4. if !ssrManager.IsRunning(themeName) { ssrManager.Start(themeName, 3000) }
SwEnsure(k) ==
  /\ coord[k].pc = "ensure"
  /\ mu = Free
  /\ IF IsRunning(coord[k].target)
     THEN /\ coord' = [coord EXCEPT ![k].pc = "commit", ![k].found = TRUE]
          /\ UNCHANGED mcall
     ELSE /\ coord' = [coord EXCEPT ![k].pc = "starting"]
          /\ mcall' = CallManager(k, "Start", coord[k].target, CoordPort)
  /\ UNCHANGED <<disk, processes, mu, proc, reaper, stoppedSince, sweptSince, prober>>
  /\ UNCHANGED <<dbVars, routerVars>>

\* the records as tx.Commit() leaves them
Committed(target) == {target} \cap catalog

Rollback_Keeps(target) == Committed(target)

\* the records as tx.Rollback() leaves them
Rollback(target) == current

\* Start returned: on error tx.Rollback() and the error is returned
SwStartRet(k) ==
  /\ coord[k].pc = "starting"
  /\ mcall[k].st = "returned"
  /\ mcall' = [mcall EXCEPT ![k] = NoCall]
  /\ IF mcall[k].res = "ok"
     THEN /\ coord' = [coord EXCEPT ![k].pc = "commit"]
          /\ UNCHANGED <<dbLock, current>>
     ELSE /\ coord' = [coord EXCEPT ![k] = Finish(k, "StartFailed")]
          /\ dbLock' = Free
          /\ current' = Rollback(coord[k].target)
  /\ UNCHANGED <<disk, processes, mu, proc, reaper, stoppedSince, sweptSince, prober>>
  /\ UNCHANGED <<catalog, routerVars>>

CommitFailureCall_None(k) == [mcall EXCEPT ![k] = Return(k, "ok")]

\* if ssrManager != nil { ssrManager.Stop(themeName) } after a failed commit
CommitFailureCall(k) == CallManager(k, "Stop", coord[k].target, 0)

\* 5. tx.Commit(); on error ssrManager.Stop(themeName)
SwCommit(k) ==
  /\ coord[k].pc = "commit"
  /\ dbLock' = Free
  /\ \/ /\ current' = Committed(coord[k].target)
        /\ coord' = [coord EXCEPT ![k] = Finish(k, "ok")]
        /\ UNCHANGED mcall
     \/ /\ coord' = [coord EXCEPT ![k].pc = "rollback"]
        /\ mcall' = CommitFailureCall(k)
        /\ UNCHANGED current
  /\ UNCHANGED <<disk, processes, mu, proc, reaper, stoppedSince, sweptSince, prober>>
  /\ UNCHANGED <<catalog, routerVars>>

SwRollbackRet(k) ==
  /\ coord[k].pc = "rollback"
  /\ mcall[k].st = "returned"
  /\ mcall' = [mcall EXCEPT ![k] = NoCall]
  /\ coord' = [coord EXCEPT ![k] = Finish(k, "CommitFailed")]
  /\ UNCHANGED <<disk, processes, mu, proc, reaper, stoppedSince, sweptSince, prober>>
  /\ UNCHANGED <<dbVars, routerVars>>

SwitchStep(k) ==
  \/ \E target \in Themes : SwBegin(k, target)
  \/ SwList(k) \/ SwStopCall(k) \/ SwStopRet(k) \/ SwPersist(k)
  \/ SwEnsure(k) \/ SwStartRet(k) \/ SwCommit(k) \/ SwRollbackRet(k)

(* -------------------- themeService.SwitchToOfficial ------------------- *)
Cleared_Not == current

\* Update().Where(UserID(userID)).SetIsCurrent(false).Save(ctx)
Cleared == {}

\* 1. the flags are cleared; on error the call returns it
OffClear(k) ==
  /\ coord[k].pc \in {"idle", "done"}
  /\ \/ /\ coord' = [coord EXCEPT ![k] = [NoSwitch EXCEPT !.pc = "done", !.res = "ClearFailed"]]
        /\ UNCHANGED current
     \/ /\ dbLock = Free
        /\ current' = Cleared
        /\ coord' = [coord EXCEPT ![k] = [NoSwitch EXCEPT !.pc = "offList"]]
  /\ UNCHANGED <<disk, processes, mu, proc, reaper, mcall, stoppedSince, sweptSince, prober>>
  /\ UNCHANGED <<catalog, dbLock, routerVars>>

\* 4. runningThemes := ssrManager.ListRunning() (steps 2 and 3 handle the
\* static directory only)
OffList(k) ==
  /\ coord[k].pc = "offList"
  /\ mu = Free
  /\ coord' = [coord EXCEPT ![k].pc = "offStop", ![k].list = ListRunning]
  /\ UNCHANGED <<disk, processes, mu, proc, reaper, mcall, stoppedSince, sweptSince, prober>>
  /\ UNCHANGED <<dbVars, routerVars>>

\* ssrManager.Stop(themeName) for the next listed theme
OffStopCall(k) ==
  /\ coord[k].pc = "offStop"
  /\ \E name \in coord[k].list :
       /\ mcall' = CallManager(k, "Stop", name, 0)
       /\ coord' = [coord EXCEPT ![k].pc = "offStopping", ![k].list = coord[k].list \ {name}]
  /\ UNCHANGED <<disk, processes, mu, proc, reaper, stoppedSince, sweptSince, prober>>
  /\ UNCHANGED <<dbVars, routerVars>>

\* its error is logged, the loop goes on
OffStopRet(k) ==
  /\ coord[k].pc = "offStopping"
  /\ mcall[k].st = "returned"
  /\ mcall' = [mcall EXCEPT ![k] = NoCall]
  /\ coord' = [coord EXCEPT ![k].pc = "offStop", ![k].stopErr = @ \/ mcall[k].res # "ok"]
  /\ UNCHANGED <<disk, processes, mu, proc, reaper, stoppedSince, sweptSince, prober>>
  /\ UNCHANGED <<dbVars, routerVars>>

\* 5. and 6. the count of current records is only logged; return nil
OffEnd(k) ==
  /\ coord[k].pc = "offStop"
  /\ coord[k].list = {}
  /\ coord' = [coord EXCEPT ![k] = Finish(k, "official")]
  /\ UNCHANGED <<disk, processes, mu, proc, reaper, mcall, stoppedSince, sweptSince, prober>>
  /\ UNCHANGED <<dbVars, routerVars>>

OffStep(k) == OffClear(k) \/ OffList(k) \/ OffStopCall(k) \/ OffStopRet(k) \/ OffEnd(k)

\* a SwitchToOfficial call has cleared the flags and no call was made since
OfficialHolds ==
  \E k \in Coords :
     \/ coord[k].pc \in {"offList", "offStop", "offStopping"}
     \/ coord[k].pc = "done" /\ coord[k].res = "official"

(* ------------------------ SSRProxyMiddleware -------------------------- *)
HasPrefix(str, prefix) ==
  Len(str) >= Len(prefix) /\ SubSeq(str, 1, Len(prefix)) = prefix

exactPaths ==
  {<<"/", "r", "o", "b", "o", "t", "s", ".", "t", "x", "t">>,
   <<"/", "s", "i", "t", "e", "m", "a", "p", ".", "x", "m", "l">>,
   <<"/", "r", "s", "s", ".", "x", "m", "l">>,
   <<"/", "f", "e", "e", "d", ".", "x", "m", "l">>,
   <<"/", "a", "t", "o", "m", ".", "x", "m", "l">>}

skipPrefixes_NoFiles ==
  {<<"/", "a", "p", "i", "/">>,
   <<"/", "a", "d", "m", "i", "n">>,
   <<"/", "l", "o", "g", "i", "n">>,
   <<"/", "a", "d", "m", "i", "n", "-", "s", "t", "a", "t", "i", "c", "/">>,
   <<"/", "a", "d", "m", "i", "n", "-", "a", "s", "s", "e", "t", "s", "/">>,
   <<"/", "n", "e", "e", "d", "c", "a", "c", "h", "e", "/">>}

skipPrefixes ==
  {<<"/", "a", "p", "i", "/">>,
   <<"/", "a", "d", "m", "i", "n">>,
   <<"/", "l", "o", "g", "i", "n">>,
   <<"/", "a", "d", "m", "i", "n", "-", "s", "t", "a", "t", "i", "c", "/">>,
   <<"/", "a", "d", "m", "i", "n", "-", "a", "s", "s", "e", "t", "s", "/">>,
   <<"/", "f", "/">>,
   <<"/", "n", "e", "e", "d", "c", "a", "c", "h", "e", "/">>}

shouldSkipSSRProxy(path) ==
  \/ path \in exactPaths
  \/ \E prefix \in skipPrefixes : HasPrefix(path, prefix)

\* request paths tried: every excluded path, longer ones, and near misses
RequestPaths ==
  {<<"/", "r", "o", "b", "o", "t", "s", ".", "t", "x", "t">>,
   <<"/", "s", "i", "t", "e", "m", "a", "p", ".", "x", "m", "l">>,
   <<"/", "r", "s", "s", ".", "x", "m", "l">>,
   <<"/", "f", "e", "e", "d", ".", "x", "m", "l">>,
   <<"/", "a", "t", "o", "m", ".", "x", "m", "l">>,
   <<"/", "a", "p", "i", "/">>,
   <<"/", "a", "d", "m", "i", "n">>,
   <<"/", "l", "o", "g", "i", "n">>,
   <<"/", "a", "d", "m", "i", "n", "-", "s", "t", "a", "t", "i", "c", "/">>,
   <<"/", "a", "d", "m", "i", "n", "-", "a", "s", "s", "e", "t", "s", "/">>,
   <<"/", "f", "/">>,
   <<"/", "n", "e", "e", "d", "c", "a", "c", "h", "e", "/">>,
   <<"/", "a", "p", "i", "/", "x">>,
   <<"/", "a", "d", "m", "i", "n", "x">>,
   <<"/", "l", "o", "g", "i", "n", "x">>,
   <<"/", "a", "d", "m", "i", "n", "-", "s", "t", "a", "t", "i", "c", "/", "x">>,
   <<"/", "a", "d", "m", "i", "n", "-", "a", "s", "s", "e", "t", "s", "/", "x">>,
   <<"/", "f", "/", "x">>,
   <<"/", "n", "e", "e", "d", "c", "a", "c", "h", "e", "/", "x">>,
   <<"/">>,
   <<"/", "p">>,
   <<"/", "a", "p", "i">>,
   <<"/", "f">>,
   <<"/", "s", "t", "a", "t", "i", "c", "/", "x">>,
   <<"/", "r", "s", "s", ".", "x", "m", "l", "/">>,
   <<"/", "x", "a", "p", "i", "/">>}

Slash == <<"/">>

Robots == <<"/", "r", "o", "b", "o", "t", "s", ".", "t", "x", "t">>

\* c.Next(); return
PassOn == [NoReq EXCEPT !.pc = "done", !.outcome = "next"]

\* the path test, then ssrThemeChecker() when a checker is installed
ReqBegin(path) ==
  /\ req.pc \in {"idle", "done"}
  /\ \/ /\ shouldSkipSSRProxy(path)
        /\ req' = [PassOn EXCEPT !.path = path]
     \/ /\ ~shouldSkipSSRProxy(path)
        /\ checkerSet
        \* GetCurrentSSRThemeName found no current SSR theme, or its query failed
        /\ req' = PassOn
     \/ /\ ~shouldSkipSSRProxy(path)
        /\ checkerSet
        /\ \E name \in current :
             req' = [NoReq EXCEPT !.pc = "isRunning", !.path = path, !.theme = name,
                                  !.afterClear = OfficialHolds]
     \/ /\ ~shouldSkipSSRProxy(path)
        /\ ~checkerSet
        /\ req' = [NoReq EXCEPT !.pc = "getRunning", !.path = path,
                                !.afterClear = OfficialHolds]
  /\ UNCHANGED <<disk, processes, mu, proc, reaper, mcall, stoppedSince, sweptSince, prober>>
  /\ UNCHANGED <<dbVars, coord, checkerSet>>

LookupLeaves_Held == "router"

\* m.mu.RLock(); defer m.mu.RUnlock(): the lock as a lookup leaves it
LookupLeaves == Free

RouterChecks_Skip(name) == TRUE

\* if ssrManager.IsRunning(themeName)
RouterChecks(name) == IsRunning(name)

ReqIsRunning ==
  /\ req.pc = "isRunning"
  /\ mu = Free
  /\ IF RouterChecks(req.theme)
     THEN req' = [req EXCEPT !.pc = "getPort"]
     ELSE req' = PassOn
  /\ mu' = LookupLeaves
  /\ UNCHANGED <<disk, processes, proc, reaper, mcall, stoppedSince, sweptSince, prober>>
  /\ UNCHANGED <<dbVars, coord, checkerSet>>

\* Port: ssrManager.GetPort(themeName)
ReqGetPort ==
  /\ req.pc = "getPort"
  /\ mu = Free
  /\ req' = [req EXCEPT !.pc = "proxying", !.port = GetPort(req.theme)]
  /\ mu' = LookupLeaves
  /\ UNCHANGED <<disk, processes, proc, reaper, mcall, stoppedSince, sweptSince, prober>>
  /\ UNCHANGED <<dbVars, coord, checkerSet>>

\* no checker: runningTheme = ssrManager.GetRunningTheme()
ReqGetRunning ==
  /\ req.pc = "getRunning"
  /\ mu = Free
  /\ \/ /\ processes = {}
        /\ req' = PassOn
     \/ \E e \in processes :
          req' = [req EXCEPT !.pc = "proxying", !.theme = e.name, !.port = e.port]
  /\ mu' = LookupLeaves
  /\ UNCHANGED <<disk, processes, proc, reaper, mcall, stoppedSince, sweptSince, prober>>
  /\ UNCHANGED <<dbVars, coord, checkerSet>>

OnProxyError_FallThrough == "next"

\* proxy.ErrorHandler: status 503 and the fixed page that names the theme
OnProxyError == "unavailable"

\* a runtime may answer the connection to localhost:port
Reachable(port) == port # 0 /\ \E pid \in Pids : Alive(pid)

\* proxy.ServeHTTP(c.Writer, c.Request); c.Abort()
ReqServe ==
  /\ req.pc = "proxying"
  /\ \/ /\ Reachable(req.port)
        /\ req' = [req EXCEPT !.pc = "done", !.outcome = "proxied"]
     \/ req' = [req EXCEPT !.pc = "done", !.outcome = OnProxyError]
  /\ UNCHANGED <<disk, processes, mu, proc, reaper, mcall, stoppedSince, sweptSince, prober>>
  /\ UNCHANGED <<dbVars, coord, checkerSet>>

RouterStep == ReqIsRunning \/ ReqGetPort \/ ReqGetRunning \/ ReqServe

(* --------------------------- specification ---------------------------- *)
InitBase ==
  /\ disk = {"a", "b"}
  /\ processes = {}
  /\ mu = Free
  /\ proc = <<>>
  /\ reaper = <<>>
  /\ prober = <<>>
  /\ mcall = [t \in Threads |-> NoCall]
  /\ stoppedSince = [n \in Themes |-> "no"]
  /\ sweptSince = "no"
  /\ catalog = {"a", "b"}
  /\ current = {}
  /\ dbLock = Free
  /\ coord = [k \in Coords |-> NoSwitch]
  /\ req = NoReq

\* the application installed the activation checker at startup
Init == InitBase /\ checkerSet = TRUE

\* administrative requests reaching the Manager directly
CallStart == \E t \in Callers, name \in Themes : Invoke(t, "Start", name, PortOf(t))

CallStop == \E t \in Callers, name \in Themes : Invoke(t, "Stop", name, 0)

CallStopAll == \E t \in {"d1"} : Invoke(t, "StopAll", "", 0)

StartStep == \E t \in Threads : Start(t)

StopStep == \E t \in Threads : StopBegin(t) \/ StopDone(t) \/ StopTimeout(t)

StopAllStep ==
  \E t \in Threads : StopAllBegin(t) \/ StopAllSignal(t) \/ StopAllWait(t) \/ StopAllEnd(t)

EnvStep == \E pid \in Pids : ProcExit(pid) \/ Reap(pid)

\* the supervisor under concurrent Start and Stop calls
Next == CallStart \/ CallStop \/ StartStep \/ StopStep \/ EnvStep

Spec == Init /\ [][Next]_vars

\* the supervisor under Start, Stop and StopAll calls
SweepNext == CallStart \/ CallStop \/ CallStopAll \/ StartStep \/ StopStep \/ StopAllStep \/ EnvStep

SweepSpec == Init /\ [][SweepNext]_vars

\* the supervisor under Start and StopAll calls with fair scheduling: every
\* goroutine that can take a step eventually takes it, a reaper that can take
\* the lock again and again eventually gets it; a runtime need not exit
FairCallStart == \E name \in {"a", "b"} : Invoke("d2", "Start", name, PortOf("d2"))

FairNext == FairCallStart \/ CallStopAll \/ StartStep \/ StopAllStep \/ EnvStep

Fairness ==
  /\ WF_vars(StartStep)
  /\ WF_vars(StopAllStep)
  /\ \A pid \in 1..MaxSpawn : SF_vars(pid \in Pids /\ Reap(pid))

FairSpec == Init /\ [][FairNext]_vars /\ Fairness

ProbeStep ==
  \E pid \in Pids :
     ProbeTimeout(pid) \/ ProbeLock(pid) \/ ProbeAbort(pid) \/ ProbeReady(pid) \/ ProbeRetry(pid)

\* one administrator starting themes, one stopping them, and the readiness
\* probers; a goroutine that can take the lock again and again eventually gets
\* it, a runtime need neither answer HTTP nor exit
LiveCallStart == \E name \in {"a", "c"} : Invoke("d1", "Start", name, PortOf("d1"))

LiveCallStop == \E name \in {"a"} : Invoke("d2", "Stop", name, 0)

LiveNext == LiveCallStart \/ LiveCallStop \/ StartStep \/ StopStep \/ EnvStep \/ ProbeStep

LiveFairness ==
  /\ SF_vars(StartStep)
  /\ SF_vars(\E t \in Callers : StopBegin(t))
  /\ WF_vars(\E t \in Callers : StopDone(t) \/ StopTimeout(t))

LiveSpec == Init /\ [][LiveNext]_vars /\ LiveFairness

\* an administrator starting and stopping themes while another asks for
\* their status
CallGetStatus == \E name \in Themes : Invoke("d2", "GetStatus", name, 0)

StatusNext ==
  \/ LiveCallStart \/ LiveCallStop \/ CallGetStatus
  \/ StartStep \/ StopStep \/ EnvStep \/ GetStatus("d2")

StatusSpec == Init /\ [][StatusNext]_vars

\* starts, a StopAll and the readiness probers; a prober's clock runs on, so
\* a prober that comes back to the head of its loop again and again sees the
\* timeout, and a prober that can take the read lock takes it
PollCallStart == Invoke("d2", "Start", "b", PortOf("d2"))

PollNext == PollCallStart \/ CallStopAll \/ StartStep \/ StopAllStep \/ EnvStep \/ ProbeStep

PollFairness ==
  \A pid \in 1..MaxSpawn :
     /\ SF_vars(pid \in Pids /\ ProbeTimeout(pid))
     /\ WF_vars(pid \in Pids /\ (ProbeAbort(pid) \/ ProbeReady(pid) \/ ProbeRetry(pid)))

PollSpec == Init /\ [][PollNext]_vars /\ Fairness /\ PollFairness

\* one administrator switching SSR themes, one after the other
SwitchNext == SwitchStep("k1") \/ StartStep \/ StopStep \/ EnvStep

SwitchSpec == Init /\ [][SwitchNext]_vars

\* one administrator starting SSR themes through the start-theme endpoint
PortNext ==
  \/ (\E target \in Themes : StartTheme("k1", target))
  \/ SwList("k1") \/ SwStopCall("k1") \/ SwStopRet("k1") \/ SwPersist("k1")
  \/ SwEnsure("k1") \/ SwStartRet("k1") \/ SwCommit("k1") \/ SwRollbackRet("k1")
  \/ StartStep \/ StopStep \/ EnvStep

PortSpec == Init /\ [][PortNext]_vars

\* two administrators switching SSR themes at the same time
CoordNext ==
  \/ SwitchStep("k1")
  \/ SwBegin("k2", "b") \/ SwList("k2") \/ SwStopCall("k2") \/ SwStopRet("k2") \/ SwPersist("k2")
  \/ SwEnsure("k2") \/ SwStartRet("k2") \/ SwCommit("k2") \/ SwRollbackRet("k2")
  \/ StartStep \/ StopStep \/ EnvStep

CoordSpec == Init /\ [][CoordNext]_vars

\* the checker may or may not have been installed
ProxyInit == InitBase /\ checkerSet \in BOOLEAN

\* requests to the front page while one administrator switches SSR themes
ProxyNext ==
  \/ ReqBegin(Slash) \/ ReqBegin(Robots) \/ RouterStep
  \/ (\E target \in {"a", "b"} : SwBegin("k1", target))
  \/ SwList("k1") \/ SwStopCall("k1") \/ SwStopRet("k1") \/ SwPersist("k1")
  \/ SwEnsure("k1") \/ SwStartRet("k1") \/ SwCommit("k1") \/ SwRollbackRet("k1")
  \/ StartStep \/ StopStep \/ EnvStep

ProxySpec == ProxyInit /\ [][ProxyNext]_vars

\* one administrator activating SSR themes and switching back to the
\* built-in theme, one call after the other
OfficialNext == SwitchStep("k1") \/ OffStep("k1") \/ StartStep \/ StopStep \/ EnvStep

OfficialSpec == Init /\ [][OfficialNext]_vars

\* requests to the front page while theme "a" is activated and deactivated
OffProxyNext ==
  \/ ReqBegin(Slash) \/ RouterStep
  \/ SwBegin("k1", "a") \/ SwList("k1") \/ SwPersist("k1")
  \/ SwEnsure("k1") \/ SwStartRet("k1") \/ SwCommit("k1") \/ SwRollbackRet("k1")
  \/ OffStep("k1")
  \/ StartStep \/ StopStep \/ EnvStep

OffProxySpec == ProxyInit /\ [][OffProxyNext]_vars

\* requests for every sample path while theme "a" is activated
\* the calls of the coordinator and the reapers get the lock when it is free
\* again and again; a proxied exchange may go on for ever
StreamFairness ==
  /\ SF_vars(StartStep)
  /\ SF_vars(StopStep)
  /\ \A pid \in 1..MaxSpawn : SF_vars(pid \in Pids /\ Reap(pid))

StreamSpec == ProxyInit /\ [][OffProxyNext]_vars /\ StreamFairness

PathNext ==
  \/ (\E path \in RequestPaths : ReqBegin(path)) \/ RouterStep
  \/ SwBegin("k1", "a") \/ SwList("k1") \/ SwPersist("k1")
  \/ SwEnsure("k1") \/ SwStartRet("k1") \/ SwCommit("k1") \/ SwRollbackRet("k1")
  \/ StartStep \/ StopStep \/ EnvStep

PathSpec == ProxyInit /\ [][PathNext]_vars

(* ---------------------------- properties ------------------------------ *)
StartPending(t, name) ==
  mcall[t].st = "pending" /\ mcall[t].op = "Start" /\ mcall[t].name = name

StopPending(t, name) ==
  mcall[t].st = "pending" /\ mcall[t].op = "Stop" /\ mcall[t].name = name

Returned(t) == mcall'[t].st = "returned"

UniqueEntries == \A e1, e2 \in processes : e1.name = e2.name => e1 = e2

\* C1 as stated: at most one registry entry per theme name, and when a Start
\* call overlaps another Start of the same installed theme that succeeded, it
\* returns "already running", spawning and replacing nothing (exactly one of
\* the two succeeds).
C1_ExactlyOneStartSucceeds ==
  /\ []UniqueEntries
  /\ [][\A t \in Threads, name \in disk :
         (StartPending(t, name) /\ mcall[t].peer = "ok" /\ Returned(t)) =>
            /\ mcall'[t].res = "AlreadyRunning"
            /\ processes' = processes /\ proc' = proc]_vars

\* C1 amended: at most one registry entry per theme name in every reachable
\* state, and a Start that finds an entry for its theme in the registry (so the
\* second of two overlapping Start calls, while the first one's instance is
\* still registered) returns "already running", spawns no process and leaves
\* the registry as it was.
C1_StartRefusedWhileRegistered ==
  /\ []UniqueEntries
  /\ [][\A t \in Threads, name \in Themes :
         (StartPending(t, name) /\ HasEntry(name) /\ Returned(t)) =>
            /\ mcall'[t].res = "AlreadyRunning"
            /\ processes' = processes /\ proc' = proc /\ reaper' = reaper]_vars

\* a Start is pending after an overlapping Start of the same theme succeeded
\* and registered its instance
C1_Witness ==
  \E t \in Threads :
     /\ mcall[t].st = "pending" /\ mcall[t].op = "Start"
     /\ mcall[t].peer = "ok" /\ HasEntry(mcall[t].name)


SwReturnsOk(k) ==
  coord[k].pc = "commit" /\ coord'[k].pc = "done" /\ coord'[k].res = "ok"

ReqLooksUp == req.pc \in {"isRunning", "getRunning"} /\ req' # req

\* C3: the router forwards a request only to a theme that has a registry
\* entry at the request's registry lookup; when the flag the request read
\* names a theme without entry, the request goes to the next handler and no
\* proxy is built.
C3_NoProxyWithoutEntry ==
  [][ReqLooksUp =>
       /\ req'.pc # "done" => HasEntry(req'.theme)
       /\ (req.pc = "isRunning" /\ ~HasEntry(req.theme)) =>
             (req'.pc = "done" /\ req'.outcome = "next")]_vars

\* the request read a flag naming a theme that has no registry entry
C3_Witness ==
  /\ req.pc = "isRunning" /\ req.theme \in current /\ ~HasEntry(req.theme)
  /\ \E pid \in Pids : proc[pid].theme = req.theme

\* C4: the router sets out to proxy a request only while some SSR theme is
\* marked current, with or without an installed checker.
C4_NoProxyWithoutCurrent ==
  [][(req.pc \notin {"getPort", "proxying"} /\ req'.pc \in {"getPort", "proxying"}) =>
        current # {}]_vars

AllSwitchesDone == \A k \in Coords : coord[k].pc \in {"idle", "done"}

\* C5: once every SwitchToSSRTheme call has completed, the registry holds at
\* most one runtime instance and no two instances on the same port.
C5_SingleActiveRuntime ==
  AllSwitchesDone =>
     /\ Cardinality(processes) <= 1
     /\ \A e1, e2 \in processes : e1.port = e2.port => e1 = e2

\* C6: after Stop(name) returned success and until a later Start(name, _),
\* IsRunning(name) is false and GetPort(name) is 0, after a graceful exit and
\* after a forced kill alike.
C6_StoppedStaysStopped ==
  \A name \in Themes :
     stoppedSince[name] # "no" => ~IsRunning(name) /\ GetPort(name) = 0

\* one theme was stopped by a forced kill and another within the graceful wait
C6_Witness ==
  \E n1, n2 \in Themes : stoppedSince[n1] = "forced" /\ stoppedSince[n2] = "graceful"

\* C7: Stop(name) without a registry entry for name returns "not running",
\* signals no process and leaves the registry unchanged.
C7_StopNotRunning ==
  [][\A t \in Threads, name \in Themes :
       (StopPending(t, name) /\ ~IsRunning(name) /\ mcall'[t] # mcall[t]) =>
          /\ Returned(t) /\ mcall'[t].res = "NotRunning"
          /\ proc' = proc /\ processes' = processes /\ mu' = mu]_vars

\* a Stop is pending for a theme without entry while another theme runs
C7_Witness ==
  \E t \in Threads :
     /\ mcall[t].st = "pending" /\ mcall[t].op = "Stop"
     /\ ~IsRunning(mcall[t].name)
     /\ \E pid \in Pids : proc[pid].st = "alive"

\* C8: after StopAll returned and until a later Start, ListRunning() is empty,
\* also when signalling one of the runtimes failed during the sweep.
C8_StopAllEmpties == sweptSince # "no" => ListRunning = {}

\* a sweep over two registered runtimes, one of which could not be signalled
C8_Witness ==
  /\ sweptSince = "failed"
  /\ Len(proc) >= 2
  /\ \A pid \in Pids : ~Alive(pid)

\* C9: a registered runtime whose process has exited is eventually removed
\* from the registry under fair scheduling, whatever else is in progress.
C9_ExitedEventuallyReaped ==
  \A name \in Themes :
     (HasEntry(name) /\ proc[Entry(name).pid].st = "exited") ~> ~IsRunning(name)

C10_ExcludedExact ==
  {<<"/", "r", "o", "b", "o", "t", "s", ".", "t", "x", "t">>,
   <<"/", "s", "i", "t", "e", "m", "a", "p", ".", "x", "m", "l">>,
   <<"/", "r", "s", "s", ".", "x", "m", "l">>,
   <<"/", "f", "e", "e", "d", ".", "x", "m", "l">>,
   <<"/", "a", "t", "o", "m", ".", "x", "m", "l">>}

C10_ExcludedPrefixes ==
  {<<"/", "a", "p", "i", "/">>,
   <<"/", "a", "d", "m", "i", "n">>,
   <<"/", "l", "o", "g", "i", "n">>,
   <<"/", "a", "d", "m", "i", "n", "-", "s", "t", "a", "t", "i", "c", "/">>,
   <<"/", "a", "d", "m", "i", "n", "-", "a", "s", "s", "e", "t", "s", "/">>,
   <<"/", "f", "/">>,
   <<"/", "n", "e", "e", "d", "c", "a", "c", "h", "e", "/">>}

C10_Excluded(path) ==
  \/ path \in C10_ExcludedExact
  \/ \E prefix \in C10_ExcludedPrefixes :
        Len(path) >= Len(prefix) /\ \A i \in 1..Len(prefix) : path[i] = prefix[i]

\* C10: a request whose path is in the exclusion set is never on its way to
\* the proxy nor proxied, whatever the flag and the registry say.
C10_ExcludedNeverProxied ==
  /\ req.pc \in {"isRunning", "getRunning", "getPort", "proxying"} => ~C10_Excluded(req.path)
  /\ req.outcome \in {"proxied", "unavailable"} => ~C10_Excluded(req.path)

\* the request for /robots.txt was passed on while an SSR theme is current and running
C10_Witness ==
  /\ req.pc = "done" /\ req.outcome = "next" /\ req.path = Robots
  /\ \E name \in current : IsRunning(name)

StartErrors == {"AlreadyRunning", "NotInstalled", "SpawnFailed"}

\* C11: a Start that returns an error leaves the registry and the processes
\* as they were, and a Start that registered no new instance returns one of
\* the three errors to its caller: "already running" when the theme has an
\* entry, "not installed" when server.js is absent, the spawn failure otherwise.
C11_FailedStartChangesNothing ==
  [][\A t \in Threads, name \in Themes :
       (StartPending(t, name) /\ Returned(t)) =>
          /\ mcall'[t].res \in StartErrors =>
                processes' = processes /\ proc' = proc /\ reaper' = reaper
          /\ (processes' = processes \/ proc' = proc) => mcall'[t].res \in StartErrors
          /\ HasEntry(name) => mcall'[t].res = "AlreadyRunning"
          /\ (~HasEntry(name) /\ name \notin disk) => mcall'[t].res = "NotInstalled"
          /\ mcall'[t].res = "SpawnFailed" => (~HasEntry(name) /\ name \in disk)]_vars

\* one Start was refused for a registered theme and another failed to spawn,
\* while a runtime is registered
C11_Witness ==
  /\ \E t1, t2 \in Threads :
        /\ mcall[t1].st = "returned" /\ mcall[t1].res = "AlreadyRunning"
        /\ mcall[t2].st = "returned" /\ mcall[t2].res = "SpawnFailed"
  /\ processes # {}

\* a successful Start returns with its entry recorded and its prober just launched
StartLeavesProbing ==
  \A t \in Threads, name \in Themes :
     (StartPending(t, name) /\ Returned(t) /\ mcall'[t].res = "ok") =>
        /\ Len(prober') = Len(prober) + 1
        /\ prober'[Len(prober')] = "probing"
        /\ \E e \in processes' : e.name = name /\ e.pid = Len(prober')

\* a step of a prober changes neither the registry, nor a process, nor a call
ProberOnlyLooks ==
  \A pid \in Pids :
     prober'[pid] # prober[pid] =>
        processes' = processes /\ proc' = proc /\ mcall' = mcall

\* C12: a successful Start returns in the step that spawns the process and
\* records the entry, with its prober only just launched; no step of a prober
\* changes the registry, a process or a call's result; and every Start call
\* returns, whether or not the runtime ever answers HTTP.
C12_StartIgnoresProber ==
  /\ [][StartLeavesProbing /\ ProberOnlyLooks]_vars
  /\ \A t \in Callers :
        (mcall[t].st = "pending" /\ mcall[t].op = "Start") ~> (mcall[t].st = "returned")

\* the prober of a registered runtime gave up after the timeout; the Start
\* that launched it had returned success and the entry is still there
C12_Witness ==
  \E pid \in Pids :
     /\ prober[pid] = "timeout"
     /\ \E e \in processes : e.pid = pid
     /\ mcall["d1"].st = "returned" /\ mcall["d1"].res = "ok"

\* Stop on a registered theme first delivers SIGTERM and starts to wait
StopSignalsFirst ==
  \A t \in Threads, name \in Themes :
     (StopPending(t, name) /\ HasEntry(name) /\ mcall'[t] # mcall[t]) =>
        \A e \in processes : e.name = name =>
           /\ mcall'[t].st = "waiting" /\ mcall'[t].pid = e.pid
           /\ proc[e.pid].st = "alive" => proc'[e.pid].st = "termed"
           /\ \A pid \in Pids : pid # e.pid => proc'[pid] = proc[pid]

\* the wait ends with success and the entry removed; the process is killed
\* when the timeout ended the wait, and only then
StopEndsWait ==
  \A t \in Callers, name \in Themes :
     (mcall[t].st = "waiting" /\ mcall[t].op = "Stop" /\ mcall[t].name = name
        /\ mcall'[t] # mcall[t]) =>
        /\ Returned(t) /\ mcall'[t].res = "ok"
        /\ \A e \in processes' : e.name # name
        /\ mu = t /\ mu' = Free
        /\ \A pid \in Pids : pid # mcall[t].pid => proc'[pid] = proc[pid]
        /\ stoppedSince'[name] = "graceful" =>
              (proc' = proc /\ proc[mcall[t].pid].st = "exited")
        /\ (stoppedSince'[name] = "forced" /\ Alive(mcall[t].pid)) =>
              proc'[mcall[t].pid].st = "killed"

\* C13: Stop on a registered runtime sends SIGTERM first, then either sees
\* the process exit or, after the timeout, kills it; either way it returns
\* success with the entry removed, and every Stop call returns even when the
\* process never exits on SIGTERM.
C13_StopAlwaysEnds ==
  /\ [][StopSignalsFirst /\ StopEndsWait]_vars
  /\ \A t \in Callers :
        (mcall[t].op = "Stop" /\ mcall[t].st \in {"pending", "waiting"})
           ~> (mcall[t].st = "returned")

\* a Stop gave up waiting and killed the process, which has not exited yet
C13_Witness ==
  /\ stoppedSince["a"] = "forced"
  /\ \E pid \in Pids : proc[pid].theme = "a" /\ proc[pid].st = "killed"
  /\ mcall["d2"].st = "returned" /\ mcall["d2"].res = "ok"

\* C14: every StopAll call returns and releases the registry lock, also when
\* a registered runtime never exits on SIGTERM.
C14_StopAllReturns ==
  \A t \in Callers :
     (mcall[t].op = "StopAll" /\ mcall[t].st \in {"pending", "sweep"})
        ~> (mcall[t].st = "returned" /\ mu # t)

\* C15: a SwitchToSSRTheme call goes past its first step only for a target
\* installed in the catalog; for any other target it ends at once with the
\* not-installed error (or the query's error), and that step stops nothing,
\* starts nothing and leaves the persisted flag as it was.
C15_NotInstalledNoEffect ==
  /\ [](\A k \in Coords : coord[k].pc \notin {"idle", "done"} => coord[k].target \in catalog)
  /\ [][\A k \in Coords :
         (coord[k].pc \in {"idle", "done"} /\ coord'[k] # coord[k] /\ coord'[k].pc = "done") =>
            /\ coord'[k].res \in {"NotInstalled", "QueryFailed"}
            /\ processes' = processes /\ proc' = proc /\ mcall' = mcall
            /\ current' = current /\ dbLock' = dbLock /\ catalog' = catalog]_vars

\* the switch to a theme that is not installed was refused while the current
\* SSR theme is running
C15_Witness ==
  /\ coord["k1"].pc = "done" /\ coord["k1"].res = "NotInstalled"
  /\ \E name \in current : IsRunning(name) /\ proc[Entry(name).pid].st = "alive"

\* C16: when the Start of the target fails, SwitchToSSRTheme returns the
\* error with its transaction rolled back, and no step of a call other than
\* its successful commit changes the flags a reader sees: the flags at the
\* failed return are those of before the call.
C16_StartFailureKeepsFlags ==
  [][\A k \in Coords :
       /\ (coord[k].pc = "starting" /\ coord'[k] # coord[k] /\ mcall[k].res # "ok") =>
             /\ coord'[k].pc = "done" /\ coord'[k].res = "StartFailed"
             /\ dbLock = k /\ dbLock' = Free
       /\ (coord'[k] # coord[k] /\ current' # current) =>
             (coord[k].pc = "commit" /\ coord'[k].res = "ok")]_vars

\* the switch failed at Start while another SSR theme is marked current
C16_Witness ==
  /\ coord["k1"].pc = "done" /\ coord["k1"].res = "StartFailed"
  /\ current # {} /\ dbLock = Free
  /\ \A name \in current : ~IsRunning(name)

C18_StopErrorsDoNotAbort ==
  [][\A k \in Coords :
       /\ (coord[k].pc = "list" /\ coord'[k] # coord[k]) =>
             coord'[k].list = {e.name : e \in processes} \ {coord[k].target}
       /\ (coord[k].pc = "stopOthers" /\ coord'[k] # coord[k]) =>
             \/ coord[k].list = {}
             \/ \E name \in coord[k].list :
                   /\ coord'[k].list = coord[k].list \ {name}
                   /\ mcall'[k].op = "Stop" /\ mcall'[k].name = name
                   /\ mcall'[k].st = "pending"
       /\ (coord[k].pc = "stopping" /\ coord'[k] # coord[k]) =>
             /\ coord'[k].pc = "stopOthers"
             /\ coord'[k].list = coord[k].list
             /\ coord'[k].target = coord[k].target]_vars

\* a switch returned success although one of its Stop calls had returned an error
C18_Witness ==
  /\ coord["k1"].pc = "done" /\ coord["k1"].res = "ok" /\ coord["k1"].stopErr
  /\ \E name \in current : IsRunning(name)

OffStops(k) == coord[k].pc \in {"offList", "offStop", "offStopping"}

\* C19: while SwitchToOfficial lists and stops the runtimes no theme is
\* marked current, so whenever a step of its Stop calls signals a process or
\* removes an entry the flag is already cleared; and when clearing the flag
\* fails the call returns the error having stopped nothing.
C19_ClearBeforeStop ==
  /\ [](\A k \in Coords : OffStops(k) => current = {})
  /\ [][\A k \in Coords :
         /\ (OffStops(k) /\ (proc' # proc \/ processes' # processes)) =>
               (current = {} /\ current' = {})
         /\ (coord'[k] # coord[k] /\ coord'[k].res = "ClearFailed") =>
               /\ coord'[k].pc = "done"
               /\ proc' = proc /\ processes' = processes /\ mcall' = mcall
               /\ current' = current]_vars

\* SwitchToOfficial has stopped the runtime of the theme that was current
C19_Witness ==
  /\ coord["k1"].pc = "offStop" /\ coord["k1"].list = {}
  /\ current = {} /\ processes = {}
  /\ \E pid \in Pids : proc[pid].st \in {"termed", "killed"}

\* C20: a request that arrives after SwitchToOfficial cleared the flag, and
\* before any later activation call, is not proxied, whether or not the
\* runtimes are still in the registry.
C20_NoProxyAfterClear ==
  (OfficialHolds /\ req.afterClear) =>
     (req.pc \notin {"getPort", "proxying"} /\ req.outcome \notin {"proxied", "unavailable"})

\* the request has just been answered or passed on
ReqEnds == req' # req /\ req'.pc = "done"

\* C21: every request ends with exactly one outcome: it is passed to the next
\* handler without a proxy having been built, or it is answered through the
\* proxy and the chain is aborted; a proxied request whose runtime cannot be
\* reached is answered with the 503 page and is never passed on.
C21_OneOutcomePerRequest ==
  [][ReqEnds =>
       /\ req'.outcome \in {"next", "proxied", "unavailable"}
       /\ (req.pc = "proxying") <=> (req'.outcome \in {"proxied", "unavailable"})
       /\ (req.pc = "proxying" /\ ~Reachable(req.port)) => req'.outcome = "unavailable"]_vars

\* a request was proxied to a theme whose runtime is gone and got the 503 page
C21_Witness ==
  /\ req.pc = "done" /\ req.outcome = "unavailable" /\ req.theme \in Themes
  /\ Len(proc) > 0 /\ \A pid \in Pids : ~Alive(pid)

\* C22: the readiness prober of every started instance ends: with the first
\* HTTP answer, with the instance's entry gone from the registry, or with the
\* maximum wait elapsed.
C22_ProberTerminates ==
  \A pid \in 1..MaxSpawn :
     (pid \in Pids /\ prober[pid] \in {"probing", "locking"})
        ~> (pid \in Pids /\ prober[pid] \in {"ready", "aborted", "timeout"})

\* C23: no call holds the registry lock while it waits for a process to exit:
\* whenever a Stop or StopAll call is waiting, the lock is free for the
\* router's lookups and for the reapers of other themes.
C23_NoLockWhileWaiting ==
  \A t \in Threads : mcall[t].st \in {"waiting", "sweep"} => mu # t

\* the reaper's removal leaves no entry of its theme, keeps every other
\* theme's entry and changes no call
ReapRemovesOwnName ==
  \A pid \in Pids :
     reaper'[pid] # reaper[pid] =>
        /\ processes' = {e \in processes : e.name # proc[pid].theme}
        /\ mcall' = mcall

\* a Stop that waited returns success, leaves no entry of its theme and keeps
\* every other theme's entry
StopRemovesOwnName ==
  \A t \in Threads, name \in Themes :
     (mcall[t].st = "waiting" /\ mcall[t].op = "Stop" /\ mcall[t].name = name
        /\ Returned(t)) =>
        /\ processes' = {e \in processes : e.name # name}
        /\ mcall'[t].res = "ok"

\* a Stop that finds the entry already removed by the theme's reaper returns
\* res at once and touches neither the registry nor a process
StopAfterReaper(res) ==
  \A t \in Threads, name \in Themes :
     (StopPending(t, name) /\ ~HasEntry(name) /\ mcall'[t] # mcall[t]
        /\ \E pid \in Pids : proc[pid].theme = name /\ reaper[pid] = "done") =>
        /\ Returned(t) /\ mcall'[t].res = res
        /\ processes' = processes /\ proc' = proc

\* C24 as stated: the reaper's removal and Stop's removal of the same
\* instance leave the entry absent and every other theme's entry in place,
\* and whichever comes second is a no-op that raises no error.
C24_SecondRemovalNoError ==
  [][ReapRemovesOwnName /\ StopRemovesOwnName /\ StopAfterReaper("ok")]_vars

\* C24, amended: the reaper's removal and Stop's removal of the same instance
\* leave the entry absent and every other theme's entry in place; a reaper
\* that comes second removes nothing and raises no error, a Stop that comes
\* second returns the 'not running' error and has no other effect.
C24_RemovalsIdempotent ==
  [][ReapRemovesOwnName /\ StopRemovesOwnName /\ StopAfterReaper(ErrNotRunning)]_vars

\* Stop removed the entry of the only instance and its reaper ran afterwards
C24_Witness ==
  /\ Len(proc) = 1 /\ reaper[1] = "done" /\ processes = {}
  /\ stoppedSince[proc[1].theme] \in {"graceful", "forced"}

\* a step in which the router or the coordinator reads the registry
LookupStep ==
  \/ req.pc \in {"isRunning", "getPort", "getRunning"} /\ req' # req
  \/ \E k \in Coords : coord[k].pc \in {"list", "ensure"} /\ coord'[k] # coord[k]

LookupsChangeNothing ==
  LookupStep => (processes' = processes /\ proc' = proc /\ mu' = mu /\ reaper' = reaper)

\* the three lookups agree on every theme
LookupsAgree ==
  \A name \in Themes :
     /\ IsRunning(name) <=> name \in ListRunning
     /\ IsRunning(name) <=> GetPort(name) # 0

\* GetPort answers with the port given to the Start that recorded the
\* instance, for as long as that instance's entry is there
StartRecordsPort ==
  /\ \A t \in Threads, name \in Themes :
        (StartPending(t, name) /\ Returned(t) /\ mcall'[t].res = "ok") =>
           GetPort(name)' = mcall[t].port
  /\ \A e \in processes, f \in processes' :
        (e.name = f.name /\ e.pid = f.pid) => e.port = f.port

\* C25: IsRunning, GetPort and ListRunning change nothing, and at every
\* moment IsRunning(name) holds exactly when ListRunning contains name and
\* exactly when GetPort(name) is the port recorded at Start for the instance.
C25_LookupsPureAndAgree ==
  /\ []LookupsAgree
  /\ [][LookupsChangeNothing /\ StartRecordsPort]_vars

\* the router has looked up a registered theme and read its recorded port
C25_Witness ==
  /\ req.pc = "proxying" /\ req.port = CoordPort
  /\ IsRunning(req.theme) /\ GetPort(req.theme) = req.port
  /\ req.theme \in ListRunning

\* C26: GetStatus answers notInstalled when the theme directory is absent,
\* running (with the registered port) exactly when the directory is there and
\* IsRunning holds, installed when the directory is there without an entry,
\* and error when the theme is in an error state: its directory cannot be
\* examined.
C26_StatusClasses ==
  [][\A t \in Callers, name \in Themes :
       (mcall[t].st = "pending" /\ mcall[t].op = "GetStatus" /\ mcall[t].name = name
          /\ Returned(t)) =>
          LET info == mcall'[t] IN
          /\ info.res \in {"notInstalled", "installed", "running", "error"}
          /\ info.peer = "notExist" => info.res = "notInstalled"
          /\ info.peer = "nil" =>
                /\ (info.res = "running") <=> IsRunning(name)
                /\ info.res = "running" => info.port = GetPort(name)
                /\ ~IsRunning(name) => info.res = "installed"
          /\ info.peer = "other" => info.res = "error"]_vars

\* C27: a reaper removes only the entry of its own instance: the entry that
\* a later Start recorded for the same theme is still in the registry after
\* the reaper of the earlier instance has run.
C27_ReaperRemovesOnlyOwn ==
  [][\A pid \in Pids :
       reaper'[pid] # reaper[pid] =>
          \A e \in processes : e.pid # pid => e \in processes']_vars

\* C28: the port the router builds its proxy target from is the non-zero port
\* recorded at Start, never 0, also when the theme's entry is removed between
\* the router's IsRunning and its GetPort.
C28_TargetPortRecorded ==
  req.pc = "proxying" => (req.port # 0 /\ req.port = CoordPort)

\* the target has been started by the call of k, which has not yet gone on
StartedByCall(k) ==
  coord[k].pc = "starting" /\ mcall[k].st = "returned" /\ mcall[k].res = "ok"

\* C29 as stated: in no state of a SwitchToSSRTheme call has the target been
\* started by the call while the flag that readers see does not name it.
C29_CommittedBeforeStart ==
  \A k \in Coords : StartedByCall(k) => coord[k].target \in current

\* C29, amended: SwitchToSSRTheme writes the new flags inside its transaction
\* before it starts the target and commits them only after the target was
\* found running or its Start succeeded; until that commit readers see the
\* flags of before the call, and at the successful return the flag names
\* exactly the target.
C29_CommitAfterStart ==
  [][\A k \in Coords :
       /\ (coord'[k] # coord[k] /\ current' # current) => coord[k].pc = "commit"
       /\ (coord[k].pc = "ensure" /\ coord'[k].pc = "starting") =>
             (dbLock = k /\ mcall'[k].op = "Start" /\ mcall'[k].name = coord[k].target)
       /\ (coord[k].pc = "starting" /\ coord'[k].pc = "commit") => StartedByCall(k)
       /\ SwReturnsOk(k) => current' = {coord[k].target}]_vars

\* the target has been started by the call and the committed flag names
\* another theme
C29_Witness ==
  /\ StartedByCall("k1") /\ HasEntry(coord["k1"].target)
  /\ current # {} /\ coord["k1"].target \notin current

C31_FlagThemeOnlyRunning ==
  [][\A k, o \in Coords :
       (k # o /\ SwReturnsOk(k) /\ coord[o].pc = "done" /\ coord[o].res = "ok") =>
          /\ ListRunning' \subseteq current'
          /\ (current' \subseteq ListRunning') \/ coord[k].lost]_vars

\* C32: after a failed commit SwitchToSSRTheme stops the target only when
\* the call itself started it: a call that found its target running sends no
\* Stop for it.
C32_RollbackStopsOwnStart ==
  [][\A k \in Coords :
       (coord[k].found /\ mcall'[k] # mcall[k] /\ mcall'[k].st = "pending") =>
          ~(mcall'[k].op = "Stop" /\ mcall'[k].name = coord[k].target)]_vars

\* the call of k is between its lookup of the target's record and its commit
InSwitch(k) ==
  coord[k].pc \in {"list", "stopOthers", "stopping", "ensure", "starting", "commit"}

\* C33: SwitchToSSRTheme neither stops nor restarts a target that is live:
\* it sends Stop for its target only after a failed commit, it calls Start
\* only for its target and only when IsRunning(target) is false, its own steps
\* leave the registry alone, and while the call is under way the target's
\* entry is kept as it is unless the reaper of an exited process removes it.
C33_LiveTargetUntouched ==
  [][\A k \in Coords :
       /\ (mcall'[k] # mcall[k] /\ mcall'[k].st = "pending" /\ mcall'[k].op = "Stop"
             /\ mcall'[k].name = coord[k].target) => coord'[k].pc = "rollback"
       /\ (mcall'[k] # mcall[k] /\ mcall'[k].st = "pending" /\ mcall'[k].op = "Start") =>
             (mcall'[k].name = coord[k].target /\ ~IsRunning(coord[k].target))
       /\ coord'[k].pc # coord[k].pc => processes' = processes
       /\ InSwitch(k) =>
             \A e \in processes :
                (e.name = coord[k].target /\ e \notin processes') => reaper' # reaper]_vars

\* the call found its target running and is about to commit; the runtime is
\* the one and only process ever spawned
C33_Witness ==
  /\ coord["k1"].pc = "commit" /\ coord["k1"].found
  /\ HasEntry(coord["k1"].target) /\ Len(proc) = 1 /\ proc[1].st = "alive"

\* C34: a step of Stop(X), whether the call succeeds or fails, leaves the
\* registry entry and the process of every other theme as they are.
C34_StopTouchesOnlyItsTheme ==
  [][\A t \in Threads, X \in Themes :
       (mcall[t].op = "Stop" /\ mcall[t].name = X /\ mcall[t].st \in {"pending", "waiting"}
          /\ mcall'[t] # mcall[t]) =>
          /\ \A e \in processes \cup processes' :
                e.name # X => (e \in processes /\ e \in processes')
          /\ \A pid \in Pids : proc[pid].theme # X => proc'[pid] = proc[pid]
          /\ Len(proc') = Len(proc)]_vars

\* Stop("a") has returned success and "b" is registered with its process alive
C34_Witness ==
  /\ stoppedSince["a"] # "no" /\ ~HasEntry("a")
  /\ HasEntry("b") /\ proc[Entry("b").pid].st = "alive"

\* C35: every process that Start spawned, that is alive and that was not
\* signalled to stop is the process of the registry entry under its theme
\* name, so no theme has two such processes.
C35_LiveProcessRegistered ==
  /\ \A pid \in Pids :
        proc[pid].st = "alive" =>
           \E e \in processes : e.pid = pid /\ e.name = proc[pid].theme
  /\ \A p, q \in Pids :
        (proc[p].st = "alive" /\ proc[q].st = "alive" /\ proc[p].theme = proc[q].theme)
           => p = q

\* C36: when a StartTheme request returns success, the port it reports is
\* the port the theme's runtime is registered on.
C36_ReportedPortIsBound ==
  [][\A k \in Coords, B \in Themes :
       (SwReturnsOk(k) /\ coord[k].target = B /\ HasEntry(B)') =>
          GetPort(B)' = coord'[k].port]_vars

(* -------------------------- Manager.Uninstall ------------------------- *)
\* what os.RemoveAll(themePath) can leave: the directory gone, or an error with
\* server.js still there or already removed
RemoveAllOutcomes(name) ==
  {[err |-> "nil", disk |-> disk \ {name}],
   [err |-> "RemoveFailed", disk |-> disk],
   [err |-> "RemoveFailed", disk |-> disk \ {name}]}

\* os.RemoveAll and the return of Uninstall; the record keeps the theme asked for
UninstallRemove(t, name) ==
  \E o \in RemoveAllOutcomes(name) :
     /\ disk' = o.disk
     /\ mcall' = [mcall EXCEPT ![t] =
          [Return(t, IF o.err = "nil" THEN "ok" ELSE o.err) EXCEPT !.name = name]]

\* m.mu.Lock(); with an entry: Signal(SIGTERM), then rt.cmd.Wait() under the lock
UninstallBegin(t) ==
  /\ mcall[t].st = "pending" /\ mcall[t].op = "Uninstall"
  /\ mu = Free
  /\ LET name == mcall[t].name IN
     IF HasEntry(name)
     THEN /\ mu' = t
          /\ proc' = SigTerm(Entry(name).pid)
          /\ mcall' = [mcall EXCEPT ![t].st = "waiting", ![t].pid = Entry(name).pid]
          /\ UNCHANGED disk
     ELSE /\ UninstallRemove(t, name)
          /\ UNCHANGED <<mu, proc>>
  /\ UNCHANGED <<processes, reaper, stoppedSince, sweptSince, prober>>
  /\ UNCHANGED others

\* rt.cmd.Wait() returns; delete(m.processes, themeName); os.RemoveAll; unlock
UninstallWait(t) ==
  /\ mcall[t].st = "waiting" /\ mcall[t].op = "Uninstall"
  /\ mu = t
  /\ ~Alive(mcall[t].pid)
  /\ processes' = MapDelete(mcall[t].name)
  /\ UninstallRemove(t, mcall[t].name)
  /\ mu' = Free
  /\ UNCHANGED <<proc, reaper, stoppedSince, sweptSince, prober>>
  /\ UNCHANGED others

\* Handler.UninstallTheme: themeService.UninstallSSRTheme first (a query or
\* delete error, or the refusal for the current theme, ends the request), then
\* Manager.Uninstall
UninstallTheme(t, name) ==
  /\ mcall[t].st \in {"idle", "returned"}
  /\ \/ /\ mcall' = [mcall EXCEPT ![t] =
             [Return(t, "RecordFailed") EXCEPT !.op = "Uninstall", !.name = name]]
        /\ UNCHANGED catalog
     \/ /\ name \notin current
        /\ catalog' = catalog \ {name}
        /\ mcall' = [mcall EXCEPT ![t] =
             [NoCall EXCEPT !.op = "Uninstall", !.name = name, !.st = "pending"]]
  /\ UNCHANGED <<disk, processes, mu, proc, reaper, stoppedSince, sweptSince, prober>>
  /\ UNCHANGED <<current, dbLock, coord, checkerSet, req>>

UninstallStep == \E t \in Threads : UninstallBegin(t) \/ UninstallWait(t)

\* one administrator starting themes and one uninstalling them, with fair
\* scheduling: every goroutine that can take a step eventually takes it, a
\* reaper that can take the lock again and again eventually gets it; a runtime
\* need not exit
RemoveCallStart == \E name \in {"a", "b"} : Invoke("d1", "Start", name, PortOf("d1"))

CallUninstall == \E name \in {"a", "b"} : UninstallTheme("d2", name)

RemoveNext == RemoveCallStart \/ CallUninstall \/ StartStep \/ UninstallStep \/ EnvStep

RemoveFairness ==
  /\ WF_vars(StartStep)
  /\ WF_vars(UninstallStep)
  /\ \A pid \in 1..MaxSpawn : SF_vars(pid \in Pids /\ Reap(pid))

RemoveSpec == Init /\ [][RemoveNext]_vars /\ RemoveFairness

\* a successful Uninstall leaves no registry entry and no theme directory, so
\* that GetStatus finds the path missing
UninstallLeavesNothing ==
  [][\A t \in Threads :
       (Returned(t) /\ mcall[t].op = "Uninstall" /\ mcall[t].st # "returned"
          /\ mcall'[t].res = "ok") =>
            \E name \in Themes :
               /\ name = mcall[t].name
               /\ name \notin ListRunning'
               /\ name \notin disk']_vars

\* C37: after Uninstall(X) returned success X has no registry entry and
\* GetStatus(X) reports not installed; and every Uninstall call of a running
\* theme returns, also when the runtime never exits on SIGTERM.
C37_UninstallReturns ==
  /\ UninstallLeavesNothing
  /\ \A t \in Callers :
        (mcall[t].op = "Uninstall" /\ mcall[t].st \in {"pending", "waiting"})
           ~> (mcall[t].st = "returned" /\ mu # t)

=============================================================================
